---- MODULE Spec2Model ----
(***************************************************************************)
(* PatientRepository (src/routers/patients.py): a JSON file store with a   *)
(* one-generation backup file and a temp-file-then-rename save.            *)
(*                                                                         *)
(* A file is absent or holds a sequence of JSON tokens; json.dump and      *)
(* json.load are modelled as a printer and a parser over those tokens.     *)
(* An in-memory Store is an insertion-ordered sequence of <<id, record>>   *)
(* pairs with distinct ids, as a Python dict is.                           *)
(***************************************************************************)
EXTENDS Integers, Sequences, FiniteSets, TLC

\* ---------------------------------------------------------------- bounds
\* an interrupted write or copy leaves at most this many tokens behind
MaxCut == 1

\* patient identifiers (the keys of the Store) and record values
Ids == {"P001", "P002"}
Recs == {"recA"}

\* ---------------------------------------------------------------- JSON text
LB == "{"
RB == "}"
COLON == ":"
COMMA == ","
LBRACKET == "["
RBRACKET == "]"

Min(a, b) == IF a < b THEN a ELSE b

Take(s, n) == SubSeq(s, 1, Min(n, Len(s)))

\* the in-memory values json.load can return
DictVal(items) == [type |-> "dict", items |-> items]
ListVal == [type |-> "list", items |-> <<>>]
NoVal == [type |-> "none", items |-> <<>>]
EmptyStore == DictVal(<<>>)

\* d[k] = v on a Python dict: an existing key keeps its position
KeyPos(d, k) == {i \in 1..Len(d) : d[i][1] = k}

DictSet(d, k, v) ==
    IF KeyPos(d, k) = {}
    THEN Append(d, <<k, v>>)
    ELSE [i \in 1..Len(d) |-> IF d[i][1] = k THEN <<k, v>> ELSE d[i]]

Keys(d) == {d[i][1] : i \in 1..Len(d)}

Lookup(d, k) == d[CHOOSE i \in 1..Len(d) : d[i][1] = k][2]

\* dict == dict in Python: same keys, same values, order ignored
DictEq(a, b) == /\ Keys(a) = Keys(b)
                /\ \A k \in Keys(a) : Lookup(a, k) = Lookup(b, k)

ValEq(x, y) == /\ x.type = y.type
               /\ x.type = "dict" => DictEq(x.items, y.items)

\* json.dump(data, f, indent=2, ensure_ascii=False) of a dict
RECURSIVE DumpItems(_, _)
DumpItems(d, i) ==
    IF i > Len(d) THEN <<>>
    ELSE (IF i > 1 THEN <<COMMA>> ELSE <<>>)
         \o <<d[i][1], COLON, d[i][2]>>
         \o DumpItems(d, i + 1)

Dump(d) == <<LB>> \o DumpItems(d, 1) \o <<RB>>

\* the records a request can carry: PatientRecs as patient.dict(exclude={"id"})
\* yields them, RawRecs as a client writes them in an uploaded file (a valid
\* record before validation, one that fails validation, a value that is no
\* object)
PatientRecs == {"recB"}

RawRecs == {"recB_raw", "recInvalid", "notAnObject"}

\* the values json.load accepts as the value of a member: it does not look
\* into them
JsonValues == Recs \cup PatientRecs \cup RawRecs

\* json.load(f): the members of an object, from token i on
ParseFail == [ok |-> FALSE, val |-> NoVal]

RECURSIVE ParseMembers(_, _, _)
ParseMembers(t, i, acc) ==
    IF i + 3 > Len(t) THEN ParseFail
    ELSE IF t[i] \notin Ids \/ t[i + 1] # COLON \/ t[i + 2] \notin JsonValues THEN ParseFail
    ELSE LET acc2 == DictSet(acc, t[i], t[i + 2])
         IN IF t[i + 3] = RB
            THEN (IF i + 3 = Len(t) THEN [ok |-> TRUE, val |-> DictVal(acc2)]
                  ELSE ParseFail)
            ELSE IF t[i + 3] = COMMA THEN ParseMembers(t, i + 4, acc2)
            ELSE ParseFail

Parse(t) ==
    IF t = <<LB, RB>> THEN [ok |-> TRUE, val |-> EmptyStore]
    ELSE IF t = <<LBRACKET, RBRACKET>> THEN [ok |-> TRUE, val |-> ListVal]
    ELSE IF Len(t) >= 1 /\ t[1] = LB THEN ParseMembers(t, 2, <<>>)
    ELSE ParseFail

\* ---------------------------------------------------------------- files
Absent == [ex |-> FALSE, rd |-> FALSE, data |-> <<>>]
FileOf(toks) == [ex |-> TRUE, rd |-> TRUE, data |-> toks]
Unreadable(toks) == [ex |-> TRUE, rd |-> FALSE, data |-> toks]

\* the stores a caller can hand to save: distinct ids in any insertion order
RECURSIVE StoresOfLen(_)
StoresOfLen(n) ==
    IF n = 0 THEN {<<>>}
    ELSE {Append(d, <<k, r>>) : d \in StoresOfLen(n - 1), k \in Ids, r \in Recs}

IsStore(d) == Cardinality(Keys(d)) = Len(d)

Stores == UNION {{d \in StoresOfLen(n) : IsStore(d)} : n \in 0..Cardinality(Ids)}

\* the file system the repository works on: DATA_FILE, BACKUP_FILE, DATA_FILE.tmp
FS(p, b, t) == [primary |-> p, backup |-> b, tmp |-> t]

\* an injected I/O failure: the step it hits, how many tokens reached the
\* disk before it (-1: the destination was never opened), and whether the
\* os.remove of the cleanup fails too
NoFault == [at |-> "none", cut |-> 0, rm |-> FALSE]
Fault(at, cut, rm) == [at |-> at, cut |-> cut, rm |-> rm]

\* shutil.copy2(src, dst): raises when src cannot be opened or when the
\* injected failure hits; a failure after dst was opened leaves dst truncated
\* to what was copied so far
copy2(src, dst, fail, cut) ==
    IF ~src.ex \/ ~src.rd THEN [dst |-> dst, raised |-> TRUE]
    ELSE IF ~fail THEN [dst |-> FileOf(src.data), raised |-> FALSE]
    ELSE IF cut < 0 THEN [dst |-> dst, raised |-> TRUE]
    ELSE [dst |-> [ex |-> TRUE,
                   rd |-> IF dst.ex THEN dst.rd ELSE TRUE,
                   data |-> Take(src.data, cut)],
          raised |-> TRUE]

\* _create_backup that keeps an existing backup instead of overwriting it
_create_backupOnce(fs, fail, cut) ==
    IF fs.primary.ex /\ ~fs.backup.ex
    THEN LET c == copy2(fs.primary, fs.backup, fail, cut)
         IN [fs |-> [fs EXCEPT !.backup = c.dst], raised |-> c.raised]
    ELSE [fs |-> fs, raised |-> FALSE]

\* PatientRepository._create_backup
_create_backup(fs, fail, cut) ==
    IF fs.primary.ex
    THEN LET c == copy2(fs.primary, fs.backup, fail, cut)
         IN [fs |-> [fs EXCEPT !.backup = c.dst], raised |-> c.raised]
    ELSE [fs |-> fs, raised |-> FALSE]

\* _restore_backup that reports success without copying the backup
_restore_backupNoCopy(fs, fail, cut) ==
    IF fs.backup.ex
    THEN [fs |-> fs, raised |-> FALSE, ret |-> TRUE]
    ELSE [fs |-> fs, raised |-> FALSE, ret |-> FALSE]

\* PatientRepository._restore_backup
_restore_backup(fs, fail, cut) ==
    IF fs.backup.ex
    THEN LET c == copy2(fs.backup, fs.primary, fail, cut)
         IN [fs |-> [fs EXCEPT !.primary = c.dst], raised |-> c.raised, ret |-> TRUE]
    ELSE [fs |-> fs, raised |-> FALSE, ret |-> FALSE]

\* open(path, "r") followed by json.load: an unreadable file raises IOError,
\* which the callers treat like a parse error
ReadJson(f) == IF f.ex /\ f.rd THEN Parse(f.data) ELSE ParseFail

\* the exception the first read of load_patients ends in, "none" when it
\* returns the parsed mapping
LoadError(f) ==
    IF ~f.rd THEN "IOError"
    ELSE IF ~Parse(f.data).ok THEN "JSONDecodeError"
    ELSE IF Parse(f.data).val.type # "dict" THEN "ValueError"
    ELSE "none"

\* the outcome of a call: the file system it leaves, whether it returned or
\* raised, the returned value (ok for save's bool, val for load's data), the
\* branch that produced it and the exception load caught on the way
Returned(fs, ok, val, path, exc) ==
    [fs |-> fs, kind |-> "return", ok |-> ok, val |-> val, path |-> path, exc |-> exc]
Raised(fs, path, exc) ==
    [fs |-> fs, kind |-> "raise", ok |-> FALSE, val |-> NoVal, path |-> path, exc |-> exc]

\* LoadExisting where a recovery without a backup file resets the primary to {}
LoadExistingReset(fs, fault) ==
    LET e == LoadError(fs.primary)
    IN IF e = "none"
       THEN Returned(fs, TRUE, Parse(fs.primary.data).val, "primary", e)
       ELSE LET r == _restore_backup(fs, fault.at = "copy", fault.cut)
            IN IF r.raised THEN Raised(r.fs, "restore_failed", e)
               ELSE IF r.ret
               THEN LET q == ReadJson(r.fs.primary)
                    IN IF q.ok THEN Returned(r.fs, TRUE, q.val, "restored", e)
                       ELSE Returned(r.fs, TRUE, EmptyStore, "restored_unparsable", e)
               ELSE Returned([r.fs EXCEPT !.primary = FileOf(Dump(<<>>))],
                             TRUE, EmptyStore, "no_backup", e)

\* load_patients once DATA_FILE is known to exist: the try block and its
\* except branch
LoadExisting(fs, fault) ==
    LET e == LoadError(fs.primary)
    IN IF e = "none"
       THEN Returned(fs, TRUE, Parse(fs.primary.data).val, "primary", e)
       ELSE LET r == _restore_backup(fs, fault.at = "copy", fault.cut)
            IN IF r.raised THEN Raised(r.fs, "restore_failed", e)
               ELSE IF r.ret
               THEN LET q == ReadJson(r.fs.primary)
                    IN IF q.ok THEN Returned(r.fs, TRUE, q.val, "restored", e)
                       ELSE Returned(r.fs, TRUE, EmptyStore, "restored_unparsable", e)
               ELSE Returned(r.fs, TRUE, EmptyStore, "no_backup", e)

\* load_patients whose existence test looks at BACKUP_FILE
load_patientsWrongExists(fs, fault) ==
    IF ~fs.backup.ex THEN Returned(fs, TRUE, EmptyStore, "missing", "none")
    ELSE LoadExisting(fs, fault)

\* load_patients that tries the recovery for a missing primary too
load_patientsRecoverMissing(fs, fault) == LoadExisting(fs, fault)

\* PatientRepository.load_patients
load_patients(fs, fault) ==
    IF ~fs.primary.ex THEN Returned(fs, TRUE, EmptyStore, "missing", "none")
    ELSE LoadExisting(fs, fault)

\* the cleanup without the os.remove
SaveCleanupKeep(fs, rmfail, path) == Returned(fs, FALSE, NoVal, path, "none")

\* the except branch of save_patients once temp_file is assigned
SaveCleanup(fs, rmfail, path) ==
    IF fs.tmp.ex /\ ~rmfail
    THEN Returned([fs EXCEPT !.tmp = Absent], FALSE, NoVal, path, "none")
    ELSE Returned(fs, FALSE, NoVal, path, "none")

\* save_patients that takes the backup after the rename
save_patientsBackupLate(fs, data, fault) ==
    IF fault.at = "open" THEN SaveCleanup(fs, fault.rm, "open_failed")
    ELSE IF fault.at = "write"
    THEN SaveCleanup([fs EXCEPT !.tmp = FileOf(Take(Dump(data), fault.cut))],
                     fault.rm, "write_failed")
    ELSE IF fault.at = "rename"
    THEN SaveCleanup([fs EXCEPT !.tmp = FileOf(Dump(data))], fault.rm, "rename_failed")
    ELSE LET b == _create_backup([fs EXCEPT !.primary = FileOf(Dump(data)), !.tmp = Absent],
                                 fault.at = "copy", fault.cut)
         IN IF b.raised THEN Raised(b.fs, "backup_failed", "UnboundLocalError")
            ELSE Returned(b.fs, TRUE, NoVal, "saved", "none")

\* the body of save_patients for the text json.dump produces.  A failure of
\* the backup copy reaches the except branch before temp_file is bound:
\* os.path.exists(temp_file) raises UnboundLocalError out of the call.
SaveText(fs, text, fault) ==
    LET b == _create_backup(fs, fault.at = "copy", fault.cut)
    IN IF b.raised THEN Raised(b.fs, "backup_failed", "UnboundLocalError")
       ELSE IF fault.at = "open" THEN SaveCleanup(b.fs, fault.rm, "open_failed")
       ELSE IF fault.at = "write"
       THEN SaveCleanup([b.fs EXCEPT !.tmp = FileOf(Take(text, fault.cut))],
                        fault.rm, "write_failed")
       ELSE IF fault.at = "rename"
       THEN SaveCleanup([b.fs EXCEPT !.tmp = FileOf(text)],
                        fault.rm, "rename_failed")
       ELSE Returned([b.fs EXCEPT !.primary = FileOf(text), !.tmp = Absent],
                     TRUE, NoVal, "saved", "none")

\* PatientRepository.save_patients
save_patients(fs, data, fault) == SaveText(fs, Dump(data), fault)

\* json.dump of whatever load_patients returned
Text(v) == IF v.type = "dict" THEN Dump(v.items) ELSE <<LBRACKET, RBRACKET>>

\* ---------------------------------------------------------------- results
\* ToolResultFormatter.format: the payload of the result
format(command, stdout, stderr, exit_code) ==
    [command |-> command, stdout |-> stdout, stderr |-> stderr,
     exitCode |-> exit_code, success |-> exit_code = 0]

ok(command, data) == format(command, data, <<>>, 0)

err(command, message) == format(command, NoVal, message, 1)

NoResult == format(<<>>, NoVal, <<>>, 0)

\* func.__name__.replace('_', ' ') on a name given as its pieces
ReplaceUnderscore(name) ==
    [i \in 1..Len(name) |-> IF name[i] = "_" THEN " " ELSE name[i]]

\* ---------------------------------------------------------------- transaction_safe
\* a wrapped operation: its __name__, the Store it works out, whether it
\* saves that Store itself (and the failure that save meets) and whether it
\* raises afterwards
Func(name, data, save, fault, raises) ==
    [name |-> name, data |-> data, save |-> save, fault |-> fault, raises |-> raises]

FuncNames == {<<"update">>, <<"create", "_", "patient">>}

\* func(*args, **kwargs): an exception of its save_patients call is its own
RunFunc(fs, f) ==
    LET own == IF f.raises THEN "RuntimeError" ELSE "none"
    IN IF f.save
       THEN LET o == save_patients(fs, f.data, f.fault)
            IN IF o.kind = "raise"
               THEN [fs |-> o.fs, raised |-> TRUE, exc |-> o.exc, saved |-> FALSE]
               ELSE [fs |-> o.fs, raised |-> f.raises, exc |-> own, saved |-> o.ok]
       ELSE [fs |-> fs, raised |-> f.raises, exc |-> own, saved |-> FALSE]

\* the outcome of the wrapper
TxOut(fs, kind, result, snap, run, rolled) ==
    [fs |-> fs, kind |-> kind, result |-> result, snap |-> snap,
     funcRan |-> run.ran, funcRaised |-> run.raised, exc |-> run.exc,
     funcSaved |-> run.saved, rolled |-> rolled]

NotRun == [ran |-> FALSE, raised |-> FALSE, exc |-> "none", saved |-> FALSE]
Ran(r) == [ran |-> TRUE, raised |-> r.raised, exc |-> r.exc, saved |-> r.saved]

\* the wrapper that also saves the Store of an operation that returned
transaction_safePersist(fs, f, rbfault) ==
    LET s0 == load_patients(fs, NoFault)
    IN IF s0.kind = "raise" THEN TxOut(s0.fs, "raise", NoResult, NoVal, NotRun, "none")
       ELSE LET r == RunFunc(s0.fs, f)
            IN IF ~r.raised
               THEN TxOut(save_patients(r.fs, f.data, NoFault).fs, "return",
                          ok(f.name, DictVal(f.data)), s0.val, Ran(r), "none")
               ELSE LET rb == SaveText(r.fs, Text(s0.val), rbfault)
                    IN IF rb.kind = "raise"
                       THEN TxOut(rb.fs, "raise", NoResult, s0.val, Ran(r), "raise")
                       ELSE TxOut(rb.fs, "return",
                                  err(ReplaceUnderscore(f.name), <<"Operation failed: ", r.exc>>),
                                  s0.val, Ran(r), IF rb.ok THEN "True" ELSE "False")

\* transaction_safe(func): wrapper(*args, **kwargs)
transaction_safe(fs, f, rbfault) ==
    LET s0 == load_patients(fs, NoFault)
    IN IF s0.kind = "raise" THEN TxOut(s0.fs, "raise", NoResult, NoVal, NotRun, "none")
       ELSE LET r == RunFunc(s0.fs, f)
            IN IF ~r.raised
               THEN TxOut(r.fs, "return", ok(f.name, DictVal(f.data)), s0.val, Ran(r), "none")
               ELSE LET rb == SaveText(r.fs, Text(s0.val), rbfault)
                    IN IF rb.kind = "raise"
                       THEN TxOut(rb.fs, "raise", NoResult, s0.val, Ran(r), "raise")
                       ELSE TxOut(rb.fs, "return",
                                  err(ReplaceUnderscore(f.name), <<"Operation failed: ", r.exc>>),
                                  s0.val, Ran(r), IF rb.ok THEN "True" ELSE "False")

\* ---------------------------------------------------------------- handlers
\* a validated request body of create_patient
Patients == {[id |-> i, rec |-> r] : i \in Ids, r \in PatientRecs}

\* patient.dict(exclude={"id"})
dict(p) == p.rec

\* data.pop that empties the dict
DictPopAll(d, k) == <<>>

\* data.pop(patient_id)
DictPop(d, k) == SelectSeq(d, LAMBDA e : e[1] # k)

\* the failures injected into the saves of one handler call: the save of the
\* changed Store, the rollback save that follows a False, and the rollback
\* save of the except branch
Faults3(save, rb, exc) == [save |-> save, rb |-> rb, exc |-> exc]

NoFaults3 == Faults3(NoFault, NoFault, NoFault)

\* the outcome of a handler: the files it leaves, whether it returned or
\* raised, its result, its backup_data, the branch it left by and what sent
\* it there (a load that raised, a list in place of the dict, a save that
\* returned False or raised)
HandlerOut(fs, kind, result, snap, path, cause) ==
    [fs |-> fs, kind |-> kind, result |-> result, snap |-> snap, path |-> path,
     cause |-> cause]

\* the "except Exception as e" branch of create_patient and delete_patient:
\* the rollback save is not guarded, its exception leaves the handler
OnException(fs, command, snap, fault, message, exc, cause) ==
    LET r == SaveText(fs, Text(snap), fault)
    IN IF r.kind = "raise"
       THEN HandlerOut(r.fs, "raise", NoResult, snap, "rollback_raised", cause)
       ELSE HandlerOut(r.fs, "return", err(command, <<message, exc>>), snap,
                       "exception", cause)

\* "if not save_patients(data)" with its rollback, and the success return
SaveOrRollback(fs, command, data, snap, faults, failed, message, result) ==
    LET s == save_patients(fs, data, faults.save)
    IN IF s.kind = "raise"
       THEN OnException(s.fs, command, snap, faults.exc, message, s.exc, "save_raised")
       ELSE IF s.ok THEN HandlerOut(s.fs, "return", result, snap, "saved", "none")
       ELSE LET r == SaveText(s.fs, Text(snap), faults.rb)
            IN IF r.kind = "raise"
               THEN OnException(r.fs, command, snap, faults.exc, message, r.exc,
                                "save_false")
               ELSE HandlerOut(r.fs, "return", err(command, <<failed>>), snap,
                               "save_failed", "save_false")

\* create_patient that saves without looking for the id
create_patientNoCheck(fs, p, faults) ==
    LET b == load_patients(fs, NoFault)
    IN IF b.kind = "raise" THEN HandlerOut(b.fs, "raise", NoResult, NoVal, "load_raised", "load")
       ELSE LET d == load_patients(b.fs, NoFault)
            IN IF d.kind = "raise"
               THEN OnException(d.fs, <<"create_patient">>, b.val, faults.exc,
                                "Failed to create patient: ", "OSError", "load")
               ELSE IF d.val.type # "dict"
               THEN OnException(d.fs, <<"create_patient">>, b.val, faults.exc,
                                "Failed to create patient: ", "TypeError", "type")
               ELSE SaveOrRollback(d.fs, <<"create_patient">>,
                                   DictSet(d.val.items, p.id, dict(p)), b.val, faults,
                                   "Failed to save patient data",
                                   "Failed to create patient: ",
                                   ok(<<"create_patient">>, DictVal(<<<<p.id, dict(p)>>>>)))

\* create_patient(patient).  A list returned by load_patients has no
\* member equal to the id, and the assignment data[patient.id] raises
\* TypeError on it.
create_patient(fs, p, faults) ==
    LET b == load_patients(fs, NoFault)
    IN IF b.kind = "raise" THEN HandlerOut(b.fs, "raise", NoResult, NoVal, "load_raised", "load")
       ELSE LET d == load_patients(b.fs, NoFault)
            IN IF d.kind = "raise"
               THEN OnException(d.fs, <<"create_patient">>, b.val, faults.exc,
                                "Failed to create patient: ", "OSError", "load")
               ELSE IF d.val.type # "dict"
               THEN OnException(d.fs, <<"create_patient">>, b.val, faults.exc,
                                "Failed to create patient: ", "TypeError", "type")
               ELSE IF p.id \in Keys(d.val.items)
               THEN HandlerOut(d.fs, "return",
                               err(<<"create_patient">>, <<"Patient ", p.id, " already exists">>),
                               b.val, "exists", "none")
               ELSE SaveOrRollback(d.fs, <<"create_patient">>,
                                   DictSet(d.val.items, p.id, dict(p)), b.val, faults,
                                   "Failed to save patient data",
                                   "Failed to create patient: ",
                                   ok(<<"create_patient">>, DictVal(<<<<p.id, dict(p)>>>>)))

\* delete_patient(patient_id).  No id is a member of a list returned by
\* load_patients: the handler answers "not found".
delete_patient(fs, id, faults) ==
    LET b == load_patients(fs, NoFault)
    IN IF b.kind = "raise" THEN HandlerOut(b.fs, "raise", NoResult, NoVal, "load_raised", "load")
       ELSE LET d == load_patients(b.fs, NoFault)
            IN IF d.kind = "raise"
               THEN OnException(d.fs, <<"delete_patient">>, b.val, faults.exc,
                                "Failed to delete patient: ", "OSError", "load")
               ELSE IF d.val.type # "dict" \/ id \notin Keys(d.val.items)
               THEN HandlerOut(d.fs, "return",
                               err(<<"delete_patient">>, <<"Patient ", id, " not found">>),
                               b.val, "not_found", "none")
               ELSE SaveOrRollback(d.fs, <<"delete_patient">>,
                                   DictPop(d.val.items, id), b.val, faults,
                                   "Failed to save data after deletion",
                                   "Failed to delete patient: ",
                                   ok(<<"delete_patient">>,
                                      DictVal(<<<<id, Lookup(d.val.items, id)>>>>)))

\* MAX_FILE_SIZE, in bytes
MAX_FILE_SIZE == 10485760

\* str.lower() on the pieces of a file name
Lower(x) == IF x = ".JSON" THEN ".json" ELSE IF x = "DATA" THEN "data" ELSE x

\* an uploaded file: its name as stem and extension, its length in bytes,
\* whether its bytes are UTF-8, and its text
UploadFile(filename, size, utf8, content) ==
    [filename |-> filename, size |-> size, utf8 |-> utf8, content |-> content]

\* Patient(**{"id": patient_id, **patient_data}).dict(exclude={"id"}): text
\* fields are stripped and the computed fields added, so a client's record
\* comes out in the form the store keeps; a record read from the store
\* comes out as it is
Patient(id, raw) ==
    IF raw \in {"notAnObject", "recInvalid"} THEN [ok |-> FALSE, rec |-> raw]
    ELSE IF raw = "recB_raw" THEN [ok |-> TRUE, rec |-> "recB"]
    ELSE [ok |-> TRUE, rec |-> raw]

\* the validation loop of upload_patients from entry i on: valid_patients and
\* the number of validation_errors
RECURSIVE ValidatePatients(_, _, _, _)
ValidatePatients(incoming, i, valid, errors) ==
    IF i > Len(incoming) THEN [valid |-> valid, errors |-> errors]
    ELSE LET q == Patient(incoming[i][1], incoming[i][2])
         IN IF q.ok
            THEN ValidatePatients(incoming, i + 1, DictSet(valid, incoming[i][1], q.rec), errors)
            ELSE ValidatePatients(incoming, i + 1, valid, errors + 1)

\* current.update(valid_patients)
RECURSIVE DictUpdate(_, _, _)
DictUpdate(d, other, i) ==
    IF i > Len(other) THEN d
    ELSE DictUpdate(DictSet(d, other[i][1], other[i][2]), other, i + 1)

\* the result data of a successful upload
UploadSummary(mode, uploaded, total) ==
    [mode |-> mode, uploaded_patients |-> uploaded, total_patients |-> total]

Rejected(fs, message, path) ==
    HandlerOut(fs, "return", err(<<"upload", "_", "patients">>, message), NoVal, path,
               "none")

\* the one element of a singleton
Only(S) == CHOOSE x \in S : TRUE

\* the end of the upload: the result for the outcome sv of its save of data
UploadSaved(sv, mode, valid, data) ==
    IF sv.kind = "raise"
    THEN Rejected(sv.fs, <<"Upload operation failed: ", sv.exc>>, "exception")
    ELSE IF ~sv.ok
    THEN Rejected(sv.fs,
                  <<IF mode = "replace" THEN "Failed to save patient data"
                    ELSE "Failed to save merged patient data">>,
                  "save_failed")
    ELSE HandlerOut(sv.fs, "return",
                    ok(<<"upload", "_", "patients">>,
                       UploadSummary(mode, Len(valid), Len(data))),
                    NoVal, "saved", "none")

\* the save of the upload: valid_patients in replace mode, the loaded Store
\* cur updated with them in merge mode; update() on a list raises
UploadSave(cur, mode, valid, fault) ==
    IF cur.kind = "raise"
    THEN Rejected(cur.fs, <<"Upload operation failed: ", "OSError">>, "exception")
    ELSE IF cur.val.type # "dict"
    THEN Rejected(cur.fs, <<"Upload operation failed: ", "AttributeError">>, "exception")
    ELSE Only({UploadSaved(save_patients(cur.fs, data, fault), mode, valid, data) :
                 data \in {IF mode = "replace" THEN valid
                           ELSE DictUpdate(cur.val.items, valid, 1)}})

\* the "Perform the upload operation" block: every exception is caught
PerformUpload(fs, mode, valid, fault) ==
    Only({UploadSave(cur, mode, valid, fault) :
            cur \in {IF mode = "replace" THEN Returned(fs, TRUE, EmptyStore, "none", "none")
                     ELSE load_patients(fs, NoFault)}})

\* upload_patients that saves the valid records of a file with invalid ones
upload_patientsPartial(fs, file, mode, fault) ==
    IF Lower(file.filename[Len(file.filename)]) # ".json"
    THEN Rejected(fs, <<"Only .json files are allowed">>, "name")
    ELSE IF file.size > MAX_FILE_SIZE THEN Rejected(fs, <<"File too large">>, "size")
    ELSE IF file.size = 0 THEN Rejected(fs, <<"Empty file provided">>, "empty")
    ELSE IF ~file.utf8 THEN Rejected(fs, <<"File encoding error">>, "encoding")
    ELSE IF ~Parse(file.content).ok THEN Rejected(fs, <<"Invalid JSON format">>, "json")
    ELSE IF Parse(file.content).val.type # "dict"
    THEN Rejected(fs, <<"JSON must be an object">>, "shape")
    ELSE PerformUpload(fs, mode,
                       ValidatePatients(Parse(file.content).val.items, 1, <<>>, 0).valid,
                       fault)

\* upload_patients(file, mode)
upload_patients(fs, file, mode, fault) ==
    IF Lower(file.filename[Len(file.filename)]) # ".json"
    THEN Rejected(fs, <<"Only .json files are allowed">>, "name")
    ELSE IF file.size > MAX_FILE_SIZE THEN Rejected(fs, <<"File too large">>, "size")
    ELSE IF file.size = 0 THEN Rejected(fs, <<"Empty file provided">>, "empty")
    ELSE IF ~file.utf8 THEN Rejected(fs, <<"File encoding error">>, "encoding")
    ELSE IF ~Parse(file.content).ok THEN Rejected(fs, <<"Invalid JSON format">>, "json")
    ELSE IF Parse(file.content).val.type # "dict"
    THEN Rejected(fs, <<"JSON must be an object">>, "shape")
    ELSE LET v == ValidatePatients(Parse(file.content).val.items, 1, <<>>, 0)
         IN IF v.errors > 0 THEN Rejected(fs, <<"Validation errors">>, "validation")
            ELSE PerformUpload(fs, mode, v.valid, fault)

\* ---------------------------------------------------------------- state
\* primary, backup, tmp: the three files.  last: the most recent call, its
\* input and its outcome.  prev: what the call before it was.  genPre: the
\* primary file as it was just before the most recent successful save.
\* tx: the most recent call of a transaction_safe wrapper.
\* lock: _file_lock, its owner and its recursion level.  th: what each
\* thread is executing.  acq: the threads in the order in which their
\* save_patients calls acquired the lock.
\* api: the most recent call of a handler, its input and its outcome.
VARIABLES primary, backup, tmp, last, prev, genPre, tx, lock, th, acq, api

vars == <<primary, backup, tmp, last, prev, genPre, tx, lock, th, acq, api>>

Files == FS(primary, backup, tmp)

\* the files a deployment can start from: none, a valid store, a truncated
\* file, valid JSON of the wrong shape, a file without read permission
InitFiles ==
    {Absent}
    \cup {FileOf(Dump(d)) : d \in Stores}
    \cup {FileOf(<<LB>>), FileOf(<<LBRACKET, RBRACKET>>), Unreadable(Dump(<<>>))}

NoCall == [op |-> "none", data |-> <<>>, fault |-> NoFault,
           kind |-> "return", ok |-> TRUE, val |-> NoVal,
           path |-> "none", exc |-> "none"]

NoGen == [ex |-> FALSE, rd |-> FALSE, data |-> <<"nosave">>]

NoFunc == Func(<<>>, <<>>, FALSE, NoFault, FALSE)

NoTx == [called |-> FALSE, func |-> NoFunc, rbfault |-> NoFault,
         kind |-> "return", result |-> NoResult, snap |-> NoVal,
         funcRan |-> FALSE, funcRaised |-> FALSE, exc |-> "none",
         funcSaved |-> FALSE, rolled |-> "none"]

NoPatient == [id |-> "none", rec |-> "none"]

NoFile == UploadFile(<<>>, 0, TRUE, <<>>)

NoApi == [op |-> "none", p |-> NoPatient, file |-> NoFile, mode |-> "none",
          faults |-> NoFaults3, kind |-> "return", result |-> NoResult,
          snap |-> NoVal, path |-> "none", cause |-> "none"]

\* the request threads of the server
Threads == {"t1", "t2", "t3"}

NoThread == "none"

\* threading.RLock(): not held
Unlocked == [owner |-> NoThread, count |-> 0]

\* a thread that serves no request: pc is its position, op the request
\* (load, save, tx for a wrapped operation, create for create_patient), f
\* the wrapped operation, p the patient of a create, fail whether
\* open(temp_file, "w") fails in its save, stage the repository call a
\* wrapper or a handler is at (snap, func, rollback; snap, data, save,
\* rollback, except), ret and val the outcome of its last repository call,
\* snap its backup_data, exc the exception in flight
Idle == [pc |-> "idle", op |-> "none", f |-> NoFunc, p |-> NoPatient,
         fail |-> FALSE, stage |-> "none", ret |-> "none", val |-> NoVal,
         snap |-> NoVal, exc |-> "none"]

Init ==
    /\ tx = NoTx
    /\ primary \in InitFiles
    /\ backup \in InitFiles
    /\ tmp = Absent
    /\ last = NoCall
    /\ prev = [op |-> "none", ok |-> FALSE]
    /\ genPre = NoGen
    /\ lock = Unlocked
    /\ th = [t \in Threads |-> Idle]
    /\ acq = <<>>
    /\ api = NoApi

Succeeded(c) == c.op = "save" /\ c.kind = "return" /\ c.ok

Record(op, data, fault, out) ==
    /\ primary' = out.fs.primary
    /\ backup' = out.fs.backup
    /\ tmp' = out.fs.tmp
    /\ last' = [op |-> op, data |-> data, fault |-> fault,
                kind |-> out.kind, ok |-> out.ok, val |-> out.val,
                path |-> out.path, exc |-> out.exc]
    /\ prev' = [op |-> last.op, ok |-> Succeeded(last)]
    /\ UNCHANGED <<tx, lock, th, acq, api>>

\* the failures that can hit a save in the current state.  The copy is only
\* made of an existing primary; one without read permission fails the copy
\* by itself, and no later step is reached
SaveFaults ==
    IF primary.ex /\ ~primary.rd THEN {NoFault}
    ELSE {NoFault}
         \cup {Fault("copy", c, FALSE) : c \in {x \in -1..MaxCut : primary.ex}}
         \cup {Fault("open", 0, rm) : rm \in {r \in BOOLEAN : r => tmp.ex}}
         \cup {Fault("write", c, rm) : c \in 0..MaxCut, rm \in BOOLEAN}
         \cup {Fault("rename", 0, rm) : rm \in BOOLEAN}

\* the failures that can hit a load in the current state: only the copy of
\* the recovery writes
NeedsRecovery(f) == f.ex /\ LoadError(f) # "none"

LoadFaults ==
    {NoFault}
    \cup {Fault("copy", c, FALSE) :
            c \in {x \in -1..MaxCut : NeedsRecovery(primary) /\ backup.ex /\ backup.rd}}

\* one save_patients call; track says whether genPre is kept
SaveCall(track) ==
    \E data \in Stores, fault \in SaveFaults :
        LET out == save_patients(Files, data, fault)
        IN /\ Record("save", data, fault, out)
           /\ genPre' = IF track /\ out.kind = "return" /\ out.ok THEN primary ELSE genPre

Save == SaveCall(FALSE)

SaveGen == SaveCall(TRUE)

Load ==
    \E fault \in LoadFaults :
        LET out == load_patients(Files, fault)
        IN /\ Record("load", <<>>, fault, out)
           /\ UNCHANGED genPre

Next == Save \/ Load

Spec == Init /\ [][Next]_vars

\* the same program with the generation history recorded
NextGen == SaveGen \/ Load

SpecGen == Init /\ [][NextGen]_vars

\* the failures injected into the saves of a wrapped call: one that makes
\* save_patients raise, one that makes it return False
CopyFaults(f) == {Fault("copy", 0, FALSE) : c \in {x \in {0} : f.ex /\ f.rd}}

FuncSaveFaults == {NoFault, Fault("write", 0, FALSE)} \cup CopyFaults(primary)

RollbackFaults == {NoFault, Fault("rename", 0, FALSE), Fault("copy", 0, FALSE)}

Funcs ==
    {Func(n, d, TRUE, ft, r) : n \in FuncNames, d \in Stores, ft \in FuncSaveFaults, r \in BOOLEAN}
    \cup {Func(n, d, FALSE, NoFault, r) : n \in FuncNames, d \in Stores, r \in BOOLEAN}

\* one call of a wrapped operation
TxCall ==
    \E f \in Funcs, rbfault \in RollbackFaults :
        \E out \in {transaction_safe(Files, f, rbfault)} :
           /\ rbfault # NoFault => out.rolled # "none"
           /\ primary' = out.fs.primary
           /\ backup' = out.fs.backup
           /\ tmp' = out.fs.tmp
           /\ tx' = [called |-> TRUE, func |-> f, rbfault |-> rbfault,
                     kind |-> out.kind, result |-> out.result, snap |-> out.snap,
                     funcRan |-> out.funcRan, funcRaised |-> out.funcRaised,
                     exc |-> out.exc, funcSaved |-> out.funcSaved, rolled |-> out.rolled]
           /\ UNCHANGED <<last, prev, genPre, lock, th, acq, api>>

NextTx == TxCall

SpecTx == Init /\ [][NextTx]_vars


\* ---------------------------------------------------------------- threads
\* the Store thread t sends: every thread a different one
Payload(t) ==
    CASE t = "t1" -> <<<<"P001", "recA">>>>
      [] t = "t2" -> <<<<"P002", "recA">>>>
      [] OTHER -> <<<<"P001", "recA">>, <<"P002", "recA">>>>

\* the requests thread t can serve
Programs(t) ==
    {[Idle EXCEPT !.pc = "acquire", !.op = "load"]}
    \cup {[Idle EXCEPT !.pc = "acquire", !.op = "save", !.fail = b] : b \in BOOLEAN}
    \cup {[Idle EXCEPT !.pc = "acquire", !.op = "tx", !.stage = "snap",
                       !.f = Func(<<"update">>, Payload(t), s, NoFault, r)] :
            s \in BOOLEAN, r \in BOOLEAN}

\* whether the repository call c is at is load_patients
CallIsLoad(c) == c.op = "load" \/ c.stage \in {"snap", "data"}

\* what the save_patients call c is at writes: the request's Store, the
\* Store of the wrapped operation, the data create_patient loaded with its
\* patient set, or the backup_data of the wrapper or the handler
CallText(t, c) ==
    IF c.op = "save" THEN Dump(Payload(t))
    ELSE IF c.stage = "func" THEN Dump(c.f.data)
    ELSE IF c.stage = "save" THEN Dump(DictSet(c.val.items, c.p.id, dict(c.p)))
    ELSE Text(c.snap)

\* the wrapper is between its snapshot and its return
InTx(c) == c.op = "tx" /\ c.stage \in {"func", "rollback"} /\ c.pc # "done"

\* where create_patient goes when its repository call has left the with
\* block: from the snapshot (outside the try) to the load of data; from
\* there to the "already exists" return, to the save, or, when the load
\* raised or returned a list, to the except branch; from a save that
\* returned False to the rollback save, from one that raised to the except
\* branch; the rollback save is inside the try and the save of the except
\* branch is not
AfterCreate(c) ==
    IF c.stage = "snap"
    THEN IF c.ret = "raise" THEN [c EXCEPT !.pc = "done"]
         ELSE [c EXCEPT !.pc = "acquire", !.stage = "data", !.snap = c.val]
    ELSE IF c.stage = "data"
    THEN IF c.ret = "raise" THEN [c EXCEPT !.pc = "acquire", !.stage = "except"]
         ELSE IF c.val.type # "dict"
         THEN [c EXCEPT !.pc = "acquire", !.stage = "except", !.exc = "TypeError"]
         ELSE IF c.p.id \in Keys(c.val.items) THEN [c EXCEPT !.pc = "done"]
         ELSE [c EXCEPT !.pc = "acquire", !.stage = "save"]
    ELSE IF c.stage = "save"
    THEN IF c.ret = "raise" THEN [c EXCEPT !.pc = "acquire", !.stage = "except"]
         ELSE IF c.ret = "False" THEN [c EXCEPT !.pc = "acquire", !.stage = "rollback"]
         ELSE [c EXCEPT !.pc = "done"]
    ELSE IF c.stage = "rollback" /\ c.ret = "raise"
    THEN [c EXCEPT !.pc = "acquire", !.stage = "except"]
    ELSE [c EXCEPT !.pc = "done"]

\* where a thread goes when its repository call has left the with block:
\* load and save requests are done; the wrapper goes from the snapshot to
\* func (its save, if it has one), from a raise to the rollback save, and
\* from there to its return
AfterCall(c) ==
    IF c.op = "create" THEN AfterCreate(c)
    ELSE IF c.op # "tx" THEN [c EXCEPT !.pc = "done"]
    ELSE IF c.stage = "snap"
    THEN IF c.ret = "raise" THEN [c EXCEPT !.pc = "done"]
         ELSE IF c.f.save
         THEN [c EXCEPT !.pc = "acquire", !.stage = "func", !.snap = c.val]
         ELSE IF c.f.raises
         THEN [c EXCEPT !.pc = "acquire", !.stage = "rollback", !.snap = c.val,
                        !.exc = "RuntimeError"]
         ELSE [c EXCEPT !.pc = "done", !.stage = "func", !.snap = c.val]
    ELSE IF c.stage = "func"
    THEN IF c.ret = "raise" THEN [c EXCEPT !.pc = "acquire", !.stage = "rollback"]
         ELSE IF c.f.raises
         THEN [c EXCEPT !.pc = "acquire", !.stage = "rollback", !.exc = "RuntimeError"]
         ELSE [c EXCEPT !.pc = "done"]
    ELSE [c EXCEPT !.pc = "done"]

Frozen == UNCHANGED <<last, prev, genPre, tx, api>>

SetFiles(fs) == primary' = fs.primary /\ backup' = fs.backup /\ tmp' = fs.tmp

\* a request arrives at thread t
Start(t) ==
    /\ th[t].pc = "idle"
    /\ \E c \in Programs(t) : th' = [th EXCEPT ![t] = c]
    /\ UNCHANGED <<primary, backup, tmp, lock, acq>>
    /\ Frozen

\* RLock.acquire: free, or held by the caller
CanAcquire(t) == lock.owner \in {NoThread, t}

\* "with _file_lock:" that does not wait for the lock
AcquireNoWait(t) ==
    /\ th[t].pc = "acquire"
    /\ lock' = [owner |-> t, count |-> lock.count + 1]
    /\ th' = [th EXCEPT ![t].pc = IF CallIsLoad(th[t]) THEN "load" ELSE "backup"]
    /\ acq' = IF CallIsLoad(th[t]) THEN acq ELSE Append(acq, t)
    /\ UNCHANGED <<primary, backup, tmp>>
    /\ Frozen

\* "with _file_lock:" of load_patients and save_patients, entry
Acquire(t) ==
    /\ th[t].pc = "acquire"
    /\ CanAcquire(t)
    /\ lock' = [owner |-> t, count |-> lock.count + 1]
    /\ th' = [th EXCEPT ![t].pc = IF CallIsLoad(th[t]) THEN "load" ELSE "backup"]
    /\ acq' = IF CallIsLoad(th[t]) THEN acq ELSE Append(acq, t)
    /\ UNCHANGED <<primary, backup, tmp>>
    /\ Frozen

\* the body of load_patients
LoadBody(t) ==
    /\ th[t].pc = "load"
    /\ \E out \in {load_patients(Files, NoFault)} :
          /\ SetFiles(out.fs)
          /\ th' = [th EXCEPT ![t].pc = "release", ![t].ret = out.kind,
                              ![t].val = out.val,
                              ![t].exc = IF out.kind = "raise" THEN "OSError" ELSE "none"]
    /\ UNCHANGED <<lock, acq>>
    /\ Frozen

\* save_patients that writes the temp file without taking a backup
SaveBackupSkip(t) ==
    /\ th[t].pc = "backup"
    /\ th' = [th EXCEPT ![t].pc = "write"]
    /\ UNCHANGED <<primary, backup, tmp, lock, acq>>
    /\ Frozen

\* save_patients, the backup copy; when it fails the except branch reads
\* the unbound temp_file and the call raises
SaveBackup(t) ==
    /\ th[t].pc = "backup"
    /\ \E b \in {_create_backup(Files, FALSE, 0)} :
          /\ SetFiles(b.fs)
          /\ th' = IF b.raised
                   THEN [th EXCEPT ![t].pc = "release", ![t].ret = "raise",
                                   ![t].exc = "UnboundLocalError"]
                   ELSE [th EXCEPT ![t].pc = "write"]
    /\ UNCHANGED <<lock, acq>>
    /\ Frozen

\* save_patients, open(temp_file, "w") and json.dump
SaveWrite(t) ==
    /\ th[t].pc = "write"
    /\ IF th[t].fail
       THEN /\ SetFiles(SaveCleanup(Files, FALSE, "open_failed").fs)
            /\ th' = [th EXCEPT ![t].pc = "release", ![t].ret = "False"]
       ELSE /\ tmp' = FileOf(CallText(t, th[t]))
            /\ th' = [th EXCEPT ![t].pc = "replace"]
            /\ UNCHANGED <<primary, backup>>
    /\ UNCHANGED <<lock, acq>>
    /\ Frozen

\* os.replace that leaves an existing DATA_FILE in place
SaveReplaceKeepFirst(t) ==
    /\ th[t].pc = "replace"
    /\ IF tmp.ex
       THEN /\ primary' = IF primary.ex THEN primary ELSE FileOf(tmp.data)
            /\ tmp' = Absent
            /\ th' = [th EXCEPT ![t].pc = "release", ![t].ret = "True"]
            /\ UNCHANGED backup
       ELSE /\ SetFiles(SaveCleanup(Files, FALSE, "rename_failed").fs)
            /\ th' = [th EXCEPT ![t].pc = "release", ![t].ret = "False"]
    /\ UNCHANGED <<lock, acq>>
    /\ Frozen

\* save_patients, os.replace(temp_file, DATA_FILE); it fails when the temp
\* file is gone
SaveReplace(t) ==
    /\ th[t].pc = "replace"
    /\ IF tmp.ex
       THEN /\ primary' = FileOf(tmp.data)
            /\ tmp' = Absent
            /\ th' = [th EXCEPT ![t].pc = "release", ![t].ret = "True"]
            /\ UNCHANGED backup
       ELSE /\ SetFiles(SaveCleanup(Files, FALSE, "rename_failed").fs)
            /\ th' = [th EXCEPT ![t].pc = "release", ![t].ret = "False"]
    /\ UNCHANGED <<lock, acq>>
    /\ Frozen

\* a with block that keeps the lock when its body raised
ReleaseKeepOnRaise(t) ==
    /\ th[t].pc = "release"
    /\ lock' = IF th[t].ret = "raise" THEN lock
               ELSE IF lock.count <= 1 THEN Unlocked
               ELSE [lock EXCEPT !.count = lock.count - 1]
    /\ th' = [th EXCEPT ![t] = AfterCall(th[t])]
    /\ UNCHANGED <<primary, backup, tmp, acq>>
    /\ Frozen

\* "with _file_lock:", exit: by return or by exception
Release(t) ==
    /\ th[t].pc = "release"
    /\ lock' = IF lock.count <= 1 THEN Unlocked
               ELSE [lock EXCEPT !.count = lock.count - 1]
    /\ th' = [th EXCEPT ![t] = AfterCall(th[t])]
    /\ UNCHANGED <<primary, backup, tmp, acq>>
    /\ Frozen

\* a step of thread t inside a request
Step(t) ==
    \/ Acquire(t)
    \/ LoadBody(t)
    \/ SaveBackup(t)
    \/ SaveWrite(t)
    \/ SaveReplace(t)
    \/ Release(t)

NextConc == \E t \in Threads : Start(t) \/ Step(t)

SpecConc == Init /\ [][NextConc]_vars

\* two of the threads, every started one scheduled again and again: a
\* thread that can take a step (a waiting one once the lock is free) takes it
FairThreads == {"t1", "t2"}

NextFair == \E t \in FairThreads : Start(t) \/ Step(t)

SpecFair == Init /\ [][NextFair]_vars /\ \A t \in FairThreads : WF_vars(Step(t))

\* two concurrent create_patient requests with distinct ids
CrudThreads == {"t1", "t2"}

NewPatient(t) == [id |-> IF t = "t1" THEN "P001" ELSE "P002", rec |-> "recB"]

\* a create_patient request arrives at thread t: the handler starts with
\* backup_data = load_patients()
StartCreate(t) ==
    /\ th[t].pc = "idle"
    /\ \E b \in BOOLEAN :
          th' = [th EXCEPT ![t] = [Idle EXCEPT !.pc = "acquire", !.op = "create",
                                               !.stage = "snap", !.p = NewPatient(t),
                                               !.fail = b]]
    /\ UNCHANGED <<primary, backup, tmp, lock, acq>>
    /\ Frozen

NextCrud == \E t \in CrudThreads : StartCreate(t) \/ Step(t)

SpecCrud == Init /\ [][NextCrud]_vars

\* ---------------------------------------------------------------- requests
\* the failures injected into one create or delete request: none; a save
\* that returns False, with a rollback that works, returns False or raises
\* (and then a last rollback that works or raises); a save that raises, with
\* a rollback that works or raises
WriteFails == Fault("write", 0, FALSE)
RenameFails == Fault("rename", 0, FALSE)
CopyFails == Fault("copy", 0, FALSE)

ApiFaults ==
    {NoFaults3,
     Faults3(WriteFails, NoFault, NoFault),
     Faults3(WriteFails, RenameFails, NoFault),
     Faults3(WriteFails, CopyFails, NoFault),
     Faults3(WriteFails, CopyFails, CopyFails),
     Faults3(CopyFails, NoFault, NoFault),
     Faults3(CopyFails, NoFault, CopyFails)}

\* an injected failure is one the call ran into
Effective(faults, out) ==
    faults # NoFaults3 => out.cause \in {"save_false", "save_raised"}

ApiCall(op, p, file, mode, faults, out) ==
    /\ SetFiles(out.fs)
    /\ api' = [op |-> op, p |-> p, file |-> file, mode |-> mode, faults |-> faults,
               kind |-> out.kind, result |-> out.result, snap |-> out.snap,
               path |-> out.path, cause |-> out.cause]
    /\ UNCHANGED <<last, prev, genPre, tx, lock, th, acq>>

\* POST /patients/create-patient
Create ==
    \E p \in Patients, faults \in ApiFaults :
        \E out \in {create_patient(Files, p, faults)} :
            /\ Effective(faults, out)
            /\ ApiCall("create", p, NoFile, "none", faults, out)

\* DELETE /patients/{patient_id}
Delete ==
    \E id \in Ids, faults \in ApiFaults :
        \E out \in {delete_patient(Files, id, faults)} :
            /\ Effective(faults, out)
            /\ ApiCall("delete", [id |-> id, rec |-> "none"], NoFile, "none", faults, out)

\* the records of an uploaded file, and the files a client sends: objects of
\* up to two records (valid, partly valid, invalid), under a lower-case and
\* an upper-case name, and one file for every reason of rejection
UploadItems ==
    {<<>>,
     <<<<"P001", "recB_raw">>>>,
     <<<<"P002", "recA">>>>,
     <<<<"P001", "recInvalid">>>>,
     <<<<"P002", "notAnObject">>>>,
     <<<<"P001", "recB_raw">>, <<"P002", "recInvalid">>>>,
     <<<<"P002", "recB_raw">>, <<"P001", "recA">>>>}

GoodText == Dump(<<<<"P001", "recB_raw">>>>)

UploadFiles ==
    {UploadFile(<<"data", ".json">>, Len(Dump(d)), TRUE, Dump(d)) : d \in UploadItems}
    \cup {UploadFile(<<"DATA", ".JSON">>, Len(GoodText), TRUE, GoodText),
          UploadFile(<<"data", ".txt">>, Len(GoodText), TRUE, GoodText),
          UploadFile(<<"data", ".json">>, MAX_FILE_SIZE + 1, TRUE, GoodText),
          UploadFile(<<"data", ".json">>, 0, TRUE, <<>>),
          UploadFile(<<"data", ".json">>, Len(GoodText), FALSE, GoodText),
          UploadFile(<<"data", ".json">>, 1, TRUE, <<LB>>),
          UploadFile(<<"data", ".json">>, 2, TRUE, <<LBRACKET, RBRACKET>>)}

\* the uploads of one request: every file in both modes, and a failing
\* save for the files that reach it
UploadFaults == {WriteFails, CopyFails}

Uploads ==
    {<<file, mode, NoFault>> : file \in UploadFiles, mode \in {"replace", "merge"}}
    \cup {<<file, mode, fault>> :
            file \in {f \in UploadFiles : f.filename = <<"DATA", ".JSON">>},
            mode \in {"replace", "merge"}, fault \in UploadFaults}

\* POST /patients/upload
Upload ==
    \E u \in Uploads :
        \E out \in {upload_patients(Files, u[1], u[2], u[3])} :
            /\ u[3] # NoFault => out.path \in {"save_failed", "exception"}
            /\ ApiCall("upload", NoPatient, u[1], u[2],
                       Faults3(u[3], NoFault, NoFault), out)

NextApi == Create \/ Delete \/ Upload

SpecApi == Init /\ [][NextApi]_vars

\* ---------------------------------------------------------------- properties
Holds(f, d) == ReadJson(f).ok /\ ValEq(ReadJson(f).val, DictVal(d))

IsCorrupt(f) == f.ex /\ f.rd /\ LoadError(f) \in {"JSONDecodeError", "ValueError"}

HoldsStore(f) == f.ex /\ f.rd /\ LoadError(f) = "none"

\* C1: round trip.  A load that directly follows a save that returned True
\* returns a Store equal to the saved one, whatever the files held before.
C1_RoundTrip ==
    [][(Succeeded(last) /\ last'.op = "load")
        => (last'.kind = "return" /\ ValEq(last'.val, DictVal(last.data)))]_vars

C1_Witness ==
    /\ last.op = "load" /\ prev.op = "save" /\ prev.ok
    /\ last.kind = "return" /\ last.val.type = "dict" /\ Len(last.val.items) = 2
    /\ backup.ex /\ ~HoldsStore(backup)

\* C2: a save that fails at the temp-file write (opening or writing it) or at
\* the rename, with no further failure in its cleanup, leaves the primary
\* file exactly as it was, leaves no temp file and returns False.
C2_FailedSaveAtomic ==
    [][(last'.op = "save" /\ last'.path \in {"open_failed", "write_failed", "rename_failed"}
        /\ ~last'.fault.rm)
        => (primary' = primary /\ ~tmp'.ex /\ last'.kind = "return" /\ ~last'.ok)]_vars

C2_Witness ==
    /\ last.op = "save" /\ last.path = "write_failed" /\ ~last.fault.rm
    /\ last.kind = "return" /\ ~last.ok
    /\ HoldsStore(primary) /\ ~Holds(primary, last.data) /\ ~tmp.ex

\* C3: save_patients never raises, whichever of its steps fails (the backup
\* copy included); every failure is reported by returning False.
C3_SaveNeverRaises == last.op = "save" => last.kind = "return"

\* C4: after two consecutive successful saves of S1 then S2 the backup file
\* deserializes to S1 and the primary file to S2.
C4_BackupGeneration ==
    [][(Succeeded(last) /\ Succeeded(last'))
        => (Holds(backup', last.data) /\ Holds(primary', last'.data))]_vars

C4_Witness ==
    /\ Succeeded(last) /\ prev.op = "save" /\ prev.ok
    /\ Holds(primary, last.data) /\ HoldsStore(backup) /\ ~Holds(backup, last.data)
    /\ Len(last.data) = 2

\* C5 as claimed: after every successful save, the first one included, the
\* primary and the backup both exist, the primary holds the saved Store and
\* the backup the pre-save state ({} when there was no primary).
C5_BackupAlwaysPresent ==
    [][Succeeded(last')
        => (/\ primary'.ex /\ backup'.ex
            /\ Holds(primary', last'.data)
            /\ IF primary.ex THEN backup'.data = primary.data
                             ELSE Holds(backup', <<>>))]_vars

\* C5 amended: after every successful save the primary exists and holds the
\* saved Store; the backup is a copy of the pre-save primary when there was
\* one, and is left as it was (absent or stale) when there was none.
C5_BackupOfExistingPrimary ==
    [][Succeeded(last')
        => (/\ primary' = FileOf(Dump(last'.data))
            /\ Holds(primary', last'.data)
            /\ IF primary.ex THEN backup' = FileOf(primary.data)
                             ELSE backup' = backup)]_vars

C5_Witness ==
    /\ Succeeded(last) /\ prev.op = "none"
    /\ primary.ex /\ ~backup.ex /\ Len(last.data) = 1

\* C6: whenever a backup file exists (and a save has succeeded over an
\* existing primary), the backup equals what the primary held just before
\* the most recent successful save; failed saves in between do not replace it.
\* Stated for the states a returning call leaves, so that a violation does
\* not rest on the exception of C3.
C6_BackupIsLastGeneration ==
    (backup.ex /\ genPre.ex /\ last.kind = "return") => (backup.data = genPre.data)

\* C7: a load (whose recovery copy is not hit by an I/O failure) of a primary
\* that holds invalid JSON or a JSON value that is no object, with a backup
\* holding a valid Store B, returns B, leaves the primary with the backup's
\* content and leaves the backup unchanged.
C7_CorruptionRecovery ==
    [][(last'.op = "load" /\ last'.fault.at = "none"
        /\ IsCorrupt(primary) /\ HoldsStore(backup))
        => (/\ last'.kind = "return"
            /\ ValEq(last'.val, Parse(backup.data).val)
            /\ primary'.ex /\ primary'.data = backup.data
            /\ backup' = backup)]_vars

C7_Witness ==
    /\ last.op = "load" /\ last.path = "restored"
    /\ last.exc \in {"JSONDecodeError", "ValueError"}
    /\ last.val.type = "dict" /\ Len(last.val.items) = 2
    /\ primary = backup

\* C8: when the primary file does not exist, load returns the empty Store
\* without raising and changes no file, with or without a backup file.
C8_EmptyOnMissing ==
    [][(last'.op = "load" /\ ~primary.ex)
        => (/\ last'.kind = "return" /\ ValEq(last'.val, EmptyStore)
            /\ primary' = primary /\ backup' = backup /\ tmp' = tmp)]_vars

C8_Witness ==
    /\ last.op = "load" /\ last.path = "missing"
    /\ ~primary.ex /\ HoldsStore(backup) /\ last.val = EmptyStore

\* C9: load_patients never raises, whatever the primary and the backup hold,
\* a failing recovery copy included.
C9_LoadNeverRaises == last.op = "load" => last.kind = "return"

\* C10: every value load returns is a mapping: the parsed primary when that
\* is a mapping, else the restored backup when that is a mapping, else the
\* empty Store (a backup of the wrong shape counts as a failed recovery).
C10_LoadReturnsMapping ==
    [][(last'.op = "load" /\ last'.kind = "return")
        => (/\ last'.val.type = "dict"
            /\ ValEq(last'.val,
                     IF HoldsStore(primary) THEN Parse(primary.data).val
                     ELSE IF primary.ex /\ HoldsStore(backup) THEN Parse(backup.data).val
                     ELSE EmptyStore))]_vars

\* C16: the primary file changes only at the rename of a successful save or
\* at the restore of a load, and what it then holds is the complete content
\* of the finished temp-file write or of the backup: no later load can read
\* a partially written primary.
C16_PrimaryOnlyWholeContent ==
    [][(primary' # primary)
        => (\/ /\ last'.op = "save" /\ last'.path = "saved"
               /\ primary' = FileOf(Dump(last'.data))
            \/ /\ last'.op = "load" /\ backup.ex
               /\ primary'.ex /\ primary'.data = backup.data)]_vars

\* C20: a load of a corrupt primary with no backup file returns the empty
\* Store, leaves the corrupt primary as it is and creates no backup file.
C20_CorruptNoBackup ==
    [][(last'.op = "load" /\ IsCorrupt(primary) /\ ~backup.ex)
        => (/\ last'.kind = "return" /\ ValEq(last'.val, EmptyStore)
            /\ primary' = primary /\ ~backup'.ex)]_vars

C20_Witness ==
    /\ last.op = "load" /\ last.path = "no_backup"
    /\ last.exc \in {"JSONDecodeError", "ValueError"}
    /\ last.kind = "return" /\ last.val = EmptyStore
    /\ IsCorrupt(primary) /\ ~backup.ex

\* what the next load_patients() returns from the current files
NextLoad == load_patients(Files, NoFault)

\* C11: when the wrapped operation raised (after saving a changed Store or
\* not) and the wrapper returned, the next load returns the Store the
\* wrapper's own load returned before the operation ran.  Stated for a
\* rollback save that no injected I/O failure hits.
C11_RollbackRestores ==
    (tx.called /\ tx.funcRaised /\ tx.kind = "return" /\ tx.rbfault = NoFault)
        => (NextLoad.kind = "return" /\ ValEq(NextLoad.val, tx.snap))

\* C17: when the wrapped operation raises, the wrapper returns (never raises)
\* a failure result: exit code 1, success false, a message holding the
\* exception text and a command naming the operation; also when the rollback
\* save fails.
C17_FailureResult ==
    (tx.called /\ tx.funcRaised)
        => (/\ tx.kind = "return"
            /\ tx.result.exitCode = 1 /\ ~tx.result.success
            /\ \E i \in 1..Len(tx.result.stderr) : tx.result.stderr[i] = tx.exc
            /\ ReplaceUnderscore(tx.result.command) = ReplaceUnderscore(tx.func.name))

\* C18 as claimed: when the wrapped operation returns, the wrapper has
\* persisted the Store the operation worked out, and the next load returns
\* it.  Stated for operations whose own save, if any, met no failure.
C18_WrapperPersists ==
    (tx.called /\ tx.funcRan /\ ~tx.funcRaised /\ tx.func.fault = NoFault)
        => (NextLoad.kind = "return" /\ ValEq(NextLoad.val, DictVal(tx.func.data)))

\* C18 amended: when the wrapped operation returns, the wrapper hands its
\* result back and saves nothing itself: without a save by the operation the
\* files are as the wrapper's load left them and the next load returns the
\* pre-call Store; the next load returns the new Store when the operation
\* saved it itself.
C18_WrapperReturnsResult ==
    [][(tx'.called /\ tx'.funcRan /\ ~tx'.funcRaised)
        => (/\ tx'.kind = "return"
            /\ tx'.result = ok(tx'.func.name, DictVal(tx'.func.data))
            /\ ~tx'.func.save
                => (/\ FS(primary', backup', tmp') = load_patients(Files, NoFault).fs
                    /\ ValEq(load_patients(FS(primary', backup', tmp'), NoFault).val,
                             tx'.snap))
            /\ tx'.funcSaved => Holds(primary', tx'.func.data))]_vars

C18_Witness ==
    /\ tx.called /\ tx.funcRan /\ ~tx.funcRaised /\ ~tx.func.save
    /\ tx.kind = "return" /\ tx.result.success
    /\ tx.snap.type = "dict" /\ ~DictEq(tx.snap.items, tx.func.data)
    /\ HoldsStore(primary) /\ ~Holds(primary, tx.func.data)

\* the save_patients call of thread u takes effect in this step
SaveTakesEffect(u) ==
    th[u].pc = "replace" /\ th'[u].pc = "release" /\ th'[u].ret = "True"

\* C12: while a wrapper is between its snapshot and its return, no
\* save_patients call of another thread takes effect.
C12_TransactionSerialized ==
    [][\A t \in Threads, u \in Threads :
         (t # u /\ InTx(th[t])) => ~SaveTakesEffect(u)]_vars

\* every thread but t and u serves no request
OnlyThreads(t, u) == \A w \in Threads \ {t, u} : th[w].pc = "idle"

\* C13: a load_patients call that another thread makes while a wrapped
\* operation is in progress (and nothing else runs) returns the Store of the
\* wrapper's snapshot or, when the operation does not raise, the Store the
\* operation saved; never one that the rollback is going to replace.
C13_NoDirtyRead ==
    [][\A t \in Threads, u \in Threads :
         (/\ t # u /\ InTx(th[t]) /\ OnlyThreads(t, u)
          /\ th[u].op = "load" /\ th[u].pc = "load" /\ th'[u].pc = "release"
          /\ th'[u].ret = "return")
         => \/ ValEq(th'[u].val, th[t].snap)
            \/ (~th[t].f.raises /\ th[t].ret # "raise"
                /\ ValEq(th'[u].val, DictVal(th[t].f.data)))]_vars

\* every thread made a save_patients request and every one returned True
AllSaved ==
    \A t \in Threads : th[t].op = "save" /\ th[t].pc = "done" /\ th[t].ret = "True"

\* C14: when every thread saved its own Store and every call returned True,
\* the primary file holds exactly the Store of the call that acquired the
\* lock last.
C14_LastWriterWins ==
    AllSaved => (/\ Len(acq) = Cardinality(Threads)
                 /\ primary = FileOf(Dump(Payload(acq[Len(acq)]))))

C14_Witness ==
    /\ AllSaved
    /\ acq = <<"t2", "t3", "t1">>
    /\ primary = FileOf(Dump(Payload("t1")))

\* C15: when every thread saved its own Store and every call returned True,
\* the backup file holds the Store of the call that acquired the lock second
\* to last.
C15_BackupIsPreviousWinner ==
    AllSaved => (/\ Len(acq) >= 2
                 /\ backup = FileOf(Dump(Payload(acq[Len(acq) - 1]))))

C15_Witness ==
    /\ AllSaved
    /\ acq = <<"t1", "t3", "t2">>
    /\ backup = FileOf(Dump(Payload("t3")))
    /\ primary # backup

\* thread t is outside every with block
Outside(t) == th[t].pc \in {"idle", "acquire", "done"}

\* C19: a thread outside the with blocks of load_patients and save_patients
\* does not hold the lock, however its call ended (return, False, exception);
\* the holder can always acquire again; and when every thread keeps being
\* scheduled, a thread waiting for the lock gets it and every request is
\* served to its end.
C19_GuardReleased ==
    /\ [](\A t \in Threads : /\ Outside(t) => lock.owner # t
                             /\ lock.owner = t => CanAcquire(t))
    /\ \A t \in Threads : (th[t].pc = "acquire") ~> (lock.owner = t)
    /\ \A t \in Threads : (th[t].pc # "idle") ~> (th[t].pc = "done")

C19_Witness ==
    \E t \in Threads, u \in Threads :
        /\ th[t].pc = "done" /\ th[t].ret = "raise"
        /\ th[u].pc = "done" /\ th[u].ret = "False"
        /\ lock = Unlocked

\* thread t is inside the with block of load_patients or save_patients
Inside(t) == th[t].pc \in {"load", "backup", "write", "replace", "release"}

\* C21: a thread inside load_patients or save_patients holds the lock, so at
\* most one thread is inside; and a step that changes the primary, the
\* backup or the temp file is a step of the thread that holds the lock.
C21_AccessUnderLock ==
    /\ [](/\ \A t \in Threads : Inside(t) => lock.owner = t
          /\ Cardinality({t \in Threads : Inside(t)}) <= 1)
    /\ [][<<primary, backup, tmp>>' # <<primary, backup, tmp>>
            => (/\ lock.owner \in Threads
                /\ Inside(lock.owner)
                /\ th'[lock.owner] # th[lock.owner]
                /\ \A u \in Threads \ {lock.owner} : th'[u] = th[u])]_vars

C21_Witness ==
    \E t \in Threads :
        /\ th[t].pc = "replace" /\ lock.owner = t /\ tmp.ex
        /\ \A u \in Threads \ {t} : th[u].pc = "acquire"

\* the Store a load_patients() shows holds the id
HasId(id) ==
    /\ NextLoad.kind = "return" /\ NextLoad.val.type = "dict"
    /\ id \in Keys(NextLoad.val.items)

\* the create_patient of thread t returned its success result
Created(t) ==
    /\ th[t].op = "create" /\ th[t].pc = "done"
    /\ th[t].stage = "save" /\ th[t].ret = "True"

\* C22: when two concurrent create_patient calls with distinct ids have both
\* returned a success result, the store holds both patients: no successful
\* creation is overwritten by the save of the other call
C22_NoLostUpdate ==
    (\A t \in CrudThreads : Created(t))
        => \A t \in CrudThreads : HasId(NewPatient(t).id)

\* the request of this step is a create for an id the Store holds, or a
\* delete for an id it does not hold
RejectedById ==
    \/ api'.op = "create" /\ HasId(api'.p.id)
    \/ api'.op = "delete" /\ NextLoad.kind = "return" /\ ~HasId(api'.p.id)

\* C23 as claimed: create_patient for an id in the Store and delete_patient
\* for an id not in it return an error result with exit code 1 and leave
\* the primary file and the backup file as they were.
C23_RejectionChangesNoFile ==
    [][RejectedById
        => (/\ api'.kind = "return" /\ api'.result.exitCode = 1
            /\ primary' = primary /\ backup' = backup)]_vars

\* C23 amended: they return an error result with exit code 1 and make no
\* save: backup and temp file are as they were, and the primary file is as
\* the handler's load_patients left it, that is unchanged when it held a
\* Store and replaced by the copy of the backup when it needed recovery.
C23_RejectionMakesNoSave ==
    [][RejectedById
        => (/\ api'.kind = "return" /\ api'.result.exitCode = 1
            /\ ~api'.result.success
            /\ api'.path \in {"exists", "not_found"}
            /\ backup' = backup /\ tmp' = tmp
            /\ primary' = NextLoad.fs.primary
            /\ HoldsStore(primary) => primary' = primary)]_vars

C23_Witness ==
    /\ api.op = "create" /\ api.path = "exists" /\ api.result.exitCode = 1
    /\ HoldsStore(primary) /\ api.p.id \in Keys(ReadJson(primary).val.items)
    /\ Lookup(ReadJson(primary).val.items, api.p.id) # dict(api.p)

\* C24: when the save of the changed Store fails (returns False or raises)
\* inside create_patient or delete_patient, the handler returns an error
\* result and the next load_patients() returns the Store that a load
\* returned before the request.
C24_FailedSaveRollsBack ==
    [][(api'.op \in {"create", "delete"} /\ api'.cause \in {"save_false", "save_raised"})
        => (/\ api'.kind = "return" /\ api'.result.exitCode = 1
            /\ NextLoad'.kind = "return"
            /\ ValEq(NextLoad'.val, NextLoad.val))]_vars

\* the Store a load showed before the step and the one a load shows after it
Before == NextLoad.val.items
After == NextLoad'.val.items

\* the step changed the Store by exactly the key k: set to r, or removed
OnlySet(k, r) ==
    /\ NextLoad'.kind = "return" /\ NextLoad'.val.type = "dict"
    /\ Keys(After) = Keys(Before) \cup {k}
    /\ Lookup(After, k) = r
    /\ \A j \in Keys(Before) \ {k} : Lookup(After, j) = Lookup(Before, j)

OnlyRemoved(k) ==
    /\ NextLoad'.kind = "return" /\ NextLoad'.val.type = "dict"
    /\ k \in Keys(Before)
    /\ Keys(After) = Keys(Before) \ {k}
    /\ \A j \in Keys(After) : Lookup(After, j) = Lookup(Before, j)

\* the step was a create or a delete that returned success, and what it did
\* to the Store
MutationDone ==
    /\ api'.op \in {"create", "delete"}
    /\ api'.kind = "return" /\ api'.result.success

MutationExact ==
    /\ api'.op = "create" => OnlySet(api'.p.id, dict(api'.p))
    /\ api'.op = "delete" => OnlyRemoved(api'.p.id)

\* C25 as claimed: a successful create_patient adds exactly its key, a
\* successful delete_patient removes exactly its key, and the backup file
\* then holds the Store of before.
C25_MutationAndBackup ==
    [][MutationDone => (MutationExact /\ Holds(backup', Before))]_vars

\* C25 amended: the Store changes in the same way, and the backup file is
\* the copy of the primary file the handler found (after the recovery of
\* its load, if any): the Store of before when that file held it, left as
\* it was when there was no primary file.
C25_MutationAndBackupCopy ==
    [][MutationDone
        => (/\ MutationExact
            /\ NextLoad.fs.primary.ex => backup' = NextLoad.fs.primary
            /\ ~NextLoad.fs.primary.ex => backup' = backup
            /\ HoldsStore(NextLoad.fs.primary) => Holds(backup', Before))]_vars

C25_Witness ==
    /\ api.op = "delete" /\ api.kind = "return" /\ api.result.success
    /\ api.p.id = "P001"
    /\ Holds(primary, <<<<"P002", "recA">>>>)
    /\ Holds(backup, <<<<"P002", "recA">>, <<"P001", "recB">>>>)

\* the uploaded file is turned down before its records are looked at, or one
\* of its records fails validation
Incoming == Parse(api'.file.content).val.items

BadFile ==
    \/ Lower(api'.file.filename[Len(api'.file.filename)]) # ".json"
    \/ api'.file.size > MAX_FILE_SIZE \/ api'.file.size = 0
    \/ ~api'.file.utf8
    \/ ~Parse(api'.file.content).ok
    \/ Parse(api'.file.content).val.type # "dict"

BadRecord ==
    \E i \in 1..Len(Incoming) : ~Patient(Incoming[i][1], Incoming[i][2]).ok

\* the Store after the step holds, in replace mode, the uploaded ids and, in
\* merge mode, those and the ids of before; an uploaded id has the record
\* Stored(id, raw) and every other id its record of before
UploadApplied(Stored(_, _)) ==
    /\ NextLoad'.kind = "return" /\ NextLoad'.val.type = "dict"
    /\ Keys(After) = Keys(Incoming)
                     \cup (IF api'.mode = "merge" THEN Keys(Before) ELSE {})
    /\ \A k \in Keys(Incoming) : Lookup(After, k) = Stored(k, Lookup(Incoming, k))
    /\ \A k \in Keys(After) \ Keys(Incoming) : Lookup(After, k) = Lookup(Before, k)

AsUploaded(id, raw) == raw

AsValidated(id, raw) == Patient(id, raw).rec

NoFileChanged == primary' = primary /\ backup' = backup /\ tmp' = tmp

\* C26 as claimed: an upload with a bad file or a bad record saves nothing
\* and changes no file; any other upload (that saves) makes the Store
\* exactly the uploaded records, in merge mode on top of the Store of
\* before.
C26_UploadAllOrNothing ==
    [][api'.op = "upload"
        => (/\ (BadFile \/ BadRecord) => (NoFileChanged /\ api'.result.exitCode = 1)
            /\ (~(BadFile \/ BadRecord) /\ api'.path = "saved")
                => UploadApplied(AsUploaded))]_vars

\* C26 amended: the same, with every uploaded record stored as
\* Patient(...).dict(exclude={"id"}) returns it and not as the file has it;
\* and an upload whose save fails returns an error result and leaves the
\* primary file as it was.
C26_UploadValidatedOrNothing ==
    [][api'.op = "upload"
        => (/\ (BadFile \/ BadRecord) => (NoFileChanged /\ api'.result.exitCode = 1)
            /\ (~(BadFile \/ BadRecord) /\ api'.path = "saved")
                => (UploadApplied(AsValidated) /\ api'.result.success)
            /\ api'.path # "saved"
                => (/\ api'.kind = "return" /\ api'.result.exitCode = 1
                    /\ primary' \in {primary, NextLoad.fs.primary}))]_vars

C26_Witness ==
    /\ api.op = "upload" /\ api.mode = "merge" /\ api.path = "saved"
    /\ api.file.content = GoodText
    /\ Holds(primary, <<<<"P001", "recB">>, <<"P002", "recA">>>>)
    /\ Holds(backup, <<<<"P001", "recA">>, <<"P002", "recA">>>>)

====
